---------------------------- MODULE Spec2Model ----------------------------
(***************************************************************************)
(* A model of ParticleManager (src/ParticleManager.cpp): the CPU-side      *)
(* particle array, the OpenGL objects the manager creates and deletes, and *)
(* the GL command stream each of its methods issues.                       *)
(*                                                                         *)
(* Numbers.  A float is modelled in fixed point: the integer v stands for  *)
(* v / Unit, and every multiplication or division rounds to the nearest    *)
(* representable value, as one float operation does.  A squared length is  *)
(* kept unrounded, in units of 1 / Unit^2.  A vector carries a flag nan:   *)
(* the IEEE not-a-number that 0 * inversesqrt(0) yields in glm::normalize. *)
(* The z and w components of _position and _velocity are always written as *)
(* 0.0f by the code and are left out.                                      *)
(***************************************************************************)
EXTENDS Integers, Sequences, FiniteSets, TLC

\* ---------------------------------------------------------------- bounds
MaxParticles == 2      \* largest numParticles passed to Init in SpecFrames
MaxFrames == 4         \* Update calls explored in SpecFrames
MaxLifeParticles == 1  \* largest numParticles passed to Init in Spec
MaxLifeFrames == 2     \* Update calls explored in Spec
MaxEmit == 1           \* largest maxParticlesEmittedPerFrame passed to Init
MaxBuffers == 2        \* Init is not called again once this many buffers were generated
MaxPrograms == 4       \* the shader builder links no program pair beyond this name
MaxCount == 600        \* particle counts 0..MaxCount in the work-group specification
Tol == 2               \* rounding slack of the fixed-point arithmetic, in 1/Unit

\* ------------------------------------------------------- program constants
Unit == 1000                    \* the float 1.0f
HardCodedMod == 100             \* RandomPosAndNeg() % 100
LocalSizeX == 256               \* _allParticles.size() / 256
SpawnRadius == Unit \div 10     \* RandomOnRange0to1() * 0.1f

\* --------------------------------------------------------------- numerics
Abs(a) == IF a < 0 THEN -a ELSE a

Sign(a) == IF a < 0 THEN -1 ELSE 1

\* C's % on int: the quotient truncates toward zero, the remainder takes the
\* sign of the dividend.
CRem(a, b) == Sign(a) * (Abs(a) % b)

\* a / b rounded to the nearest integer (b > 0): one float operation's rounding.
RoundDiv(a, b) == Sign(a) * ((2 * Abs(a) + b) \div (2 * b))

\* the product of two fixed-point floats
FMul(a, b) == RoundDiv(a * b, Unit)

RECURSIVE SqrtSearch(_, _, _)
SqrtSearch(n, lo, hi) ==
    IF lo >= hi THEN lo
    ELSE LET mid == (lo + hi + 1) \div 2
         IN  IF mid * mid <= n THEN SqrtSearch(n, mid, hi)
             ELSE SqrtSearch(n, lo, mid - 1)

\* floor of the square root (46340 is the largest root of a 32-bit int)
ISqrt(n) == SqrtSearch(n, 0, IF n < 46340 THEN n ELSE 46340)

\* the square root rounded to the nearest integer
RoundSqrt(n) ==
    LET r == ISqrt(n)
    IN  IF n - r * r > r THEN r + 1 ELSE r

\* The resolution at which a vector's length is taken before the division:
\* the largest that keeps (99^2 + 99^2) * LenScale^2 within 32 bits.
LenScale == 3 * HardCodedMod

\* ---------------------------------------------------------------- vectors
Vec(a, b) == [x |-> a, y |-> b, nan |-> FALSE]

NaNVec == [x |-> 0, y |-> 0, nan |-> TRUE]

VAdd(u, v) == IF u.nan \/ v.nan THEN NaNVec ELSE Vec(u.x + v.x, u.y + v.y)

VSub(u, v) == IF u.nan \/ v.nan THEN NaNVec ELSE Vec(u.x - v.x, u.y - v.y)

\* vector * float
VScale(v, s) == IF v.nan THEN NaNVec ELSE Vec(FMul(v.x, s), FMul(v.y, s))

\* glm::dot(v, v), in 1/Unit^2; meaningful only when v is not NaN
Dot(v) == v.x * v.x + v.y * v.y

\* glm::normalize(glm::vec2(newX, newY)) of two integer-valued floats:
\* v * inversesqrt(dot(v, v)).  For the zero vector inversesqrt is +inf and
\* 0 * inf is NaN in both components.
Normalize(newX, newY) ==
    IF newX = 0 /\ newY = 0 THEN NaNVec
    ELSE LET len == RoundSqrt((newX * newX + newY * newY) * LenScale * LenScale)
         IN  Vec(RoundDiv(newX * Unit * LenScale, len),
                 RoundDiv(newY * Unit * LenScale, len))

\* -------------------------------------------------------------- particles
\* Particle's default construction (ParticleManager.h, not in src/).
DefaultParticle == [position |-> Vec(0, 0), velocity |-> Vec(0, 0), isActive |-> 0]

\* ParticleManager::OutOfBounds: distSqr > _radiusSqr, false for a NaN distSqr.
OutOfBounds(p, center, radiusSqr) ==
    LET centerToParticle == VSub(p.position, center)
    IN  IF centerToParticle.nan THEN FALSE
        ELSE Dot(centerToParticle) > radiusSqr

\* ParticleManager::GetNewVelocityVector; d holds the values the three random
\* calls return: vx, vy from RandomPosAndNeg(), vf from RandomOnRange0to1().
GetNewVelocityVector(velocityMin, velocityDelta, d) ==
    LET newX == CRem(d.vx, HardCodedMod)
        newY == CRem(d.vy, HardCodedMod)
        randomVelocityVector == Normalize(newX, newY)
        velocityVariation == FMul(d.vf, velocityDelta)
        velocityMagnitude == velocityMin + velocityVariation
    IN  VScale(randomVelocityVector, velocityMagnitude)

ResetParticle_NoRadiusVariation(p, center, velocityMin, velocityDelta, d) ==
    [p EXCEPT !.position =
                  VAdd(center, Normalize(CRem(d.px, HardCodedMod), CRem(d.py, HardCodedMod))),
              !.velocity = GetNewVelocityVector(velocityMin, velocityDelta, d)]

\* ParticleManager::ResetParticle; px, py, pf are the values of its own three
\* random calls.  The "is active" flag is left as it is.
ResetParticle(p, center, velocityMin, velocityDelta, d) ==
    LET newX == CRem(d.px, HardCodedMod)
        newY == CRem(d.py, HardCodedMod)
        randomVector == Normalize(newX, newY)
        radiusVariation == FMul(d.pf, SpawnRadius)
    IN  [p EXCEPT !.position = VAdd(center, VScale(randomVector, radiusVariation)),
                  !.velocity = GetNewVelocityVector(velocityMin, velocityDelta, d)]

\* std::vector<Particle>::resize
Resize(particles, n) ==
    [i \in 1..n |-> IF i <= Len(particles) THEN particles[i] ELSE DefaultParticle]

NumWorkGroupsX_NoExtraGroup(size) == size \div LocalSizeX

\* GLuint numWorkGroupsX = (_allParticles.size() / 256) + 1;
\* size() is at most the unsigned int numParticles, so the quotient plus one
\* is at most 2^24 and the conversion from size_t to the 32-bit GLuint keeps
\* the value.
NumWorkGroupsX(size) == (size \div LocalSizeX) + 1


\* ------------------------------------------------------------ the GL side
\* The uniforms of the compute program, by the names Init looks them up with.
UniformNames ==
    {"uDeltaTimeSec", "uRadiusSqr", "uEmitterCenter",
     "uMmaxParticlesEmittedPerFrame", "uMaxParticleCount"}

NoUniforms == [n \in UniformNames |-> <<0, 0>>]

\* The uniforms a linked compute program can have active.  Init looks the
\* quota up as "uMmaxParticlesEmittedPerFrame"; the shader source is not in
\* src/, so a program whose shader spells it that way and one whose shader
\* does not are both possible.  In the second the looked-up location is -1.
ShaderUniforms == {UniformNames, UniformNames \ {"uMmaxParticlesEmittedPerFrame"}}

\* A GL command as a method passes it to the driver.  data is the client
\* memory glBufferData copies from; it is empty for every other command.
Cmd(op, name, args) == [op |-> op, name |-> name, args |-> args, data |-> <<>>]

CmdData(op, name, args, data) == [op |-> op, name |-> name, args |-> args, data |-> data]

\* a quarter turn of v, k times: the new random direction of a recycled particle
Rotate(v, k) ==
    IF v.nan THEN v
    ELSE IF k = 0 THEN v
    ELSE IF k = 1 THEN Vec(-v.y, v.x)
    ELSE IF k = 2 THEN Vec(-v.x, -v.y)
    ELSE Vec(v.y, -v.x)

\* One invocation of the compute shader on particle p; emitted counts the
\* particles sent out so far in this dispatch.  Returns the particle and the
\* new count.  (The shader source is not in src/; this follows the contract
\* stated above ParticleManager::Update and the uniforms Init and Update
\* upload.)  A quota that was never uploaded is the default 0.
ShadeParticle(p, u, emitted, turn) ==
    LET center == Vec(u["uEmitterCenter"][1], u["uEmitterCenter"][2])
        radiusSqr == u["uRadiusSqr"][1]
        quota == u["uMmaxParticlesEmittedPerFrame"][1]
        dt == u["uDeltaTimeSec"][1]
        p1 == IF OutOfBounds(p, center, radiusSqr)
              THEN [position |-> center, velocity |-> Rotate(p.velocity, turn),
                    isActive |-> 0]
              ELSE p
        emit == p1.isActive = 0 /\ emitted < quota
        p2 == IF emit THEN [p1 EXCEPT !.isActive = 1] ELSE p1
        p3 == IF p2.isActive = 1
              THEN [p2 EXCEPT !.position = VAdd(p2.position, VScale(p2.velocity, dt))]
              ELSE p2
    IN  [particle |-> p3, emitted |-> IF emit THEN emitted + 1 ELSE emitted]

RECURSIVE ShaderLoop(_, _, _, _, _, _)
ShaderLoop(data, u, i, invocations, emitted, rnd) ==
    IF i > Len(data) \/ i > invocations \/ i > u["uMaxParticleCount"][1] THEN data
    ELSE LET r == ShadeParticle(data[i], u, emitted, rnd[i])
         IN  ShaderLoop([data EXCEPT ![i] = r.particle], u, i + 1, invocations,
                        r.emitted, rnd)

\* The compute pass over the shader storage buffer: invocation i works on
\* particle i when i is below uMaxParticleCount.
ParticleShader(data, u, invocations, rnd) == ShaderLoop(data, u, 1, invocations, 0, rnd)

\* A log entry: the command, the program current when it was issued, whether
\* the driver accepted it (valid), whether the object it names existed (live)
\* and whether no shader write was pending without a barrier (coherent).
Entry(g, c, valid, live) ==
    [op |-> c.op, name |-> c.name, args |-> c.args, prog |-> g.currentProgram,
     valid |-> valid, live |-> live, coherent |-> ~g.pendingShaderWrites]

Without(f, k) == [n \in DOMAIN f \ {k} |-> f[n]]

\* The driver's reaction to one command: the new GL state and the log entry.
GLStep(g, c, rnd) ==
    LET a == c.args
        cp == g.currentProgram
        progLive == cp \in DOMAIN g.programs
    IN
    CASE c.op = "UseProgram" ->
           LET ok == a[1] = 0 \/ a[1] \in DOMAIN g.programs
           IN  [gl |-> IF ok THEN [g EXCEPT !.currentProgram = a[1]] ELSE g,
                entry |-> Entry(g, c, ok, ok)]
      \* an upload to the location -1 of an inactive name is dropped, no error
      [] c.op = "Uniform" ->
           LET ok == progLive /\ g.programs[cp].kind = "compute"
           IN  [gl |-> IF ok /\ c.name \in g.programs[cp].active
                       THEN [g EXCEPT !.programs[cp].uniforms[c.name] = a]
                       ELSE g,
                entry |-> Entry(g, c, ok, TRUE)]
      [] c.op = "GenBuffers" ->
           [gl |-> [g EXCEPT !.buffers = @ @@ (g.nextBuffer :> [data |-> <<>>,
                                                                 shaderWrote |-> FALSE]),
                             !.nextBuffer = @ + 1],
            entry |-> Entry(g, c, TRUE, TRUE)]
      [] c.op = "BindBuffer" ->
           LET ok == a[1] = 0 \/ a[1] \in DOMAIN g.buffers
           IN  [gl |-> IF ok THEN [g EXCEPT !.bound[c.name] = a[1]] ELSE g,
                entry |-> Entry(g, c, ok, ok)]
      [] c.op = "BufferData" ->
           LET b == g.bound[c.name]
               ok == b \in DOMAIN g.buffers
           IN  [gl |-> IF ok THEN [g EXCEPT !.buffers[b] = [data |-> c.data,
                                                            shaderWrote |-> FALSE]]
                       ELSE g,
                entry |-> Entry(g, c, ok, ok)]
      [] c.op = "BindBufferBase" ->
           LET ok == a[2] = 0 \/ a[2] \in DOMAIN g.buffers
           IN  [gl |-> IF ok THEN [g EXCEPT !.ssboBase = a[2], !.bound[c.name] = a[2]]
                       ELSE g,
                entry |-> Entry(g, c, ok, ok)]
      [] c.op = "GenVertexArrays" ->
           [gl |-> [g EXCEPT !.vaos = @ @@ (g.nextVao :> [attribs |-> {}]),
                             !.nextVao = @ + 1],
            entry |-> Entry(g, c, TRUE, TRUE)]
      [] c.op = "BindVertexArray" ->
           LET ok == a[1] = 0 \/ a[1] \in DOMAIN g.vaos
           IN  [gl |-> IF ok THEN [g EXCEPT !.boundVao = a[1]] ELSE g,
                entry |-> Entry(g, c, ok, ok)]
      [] c.op = "EnableVertexAttribArray" ->
           [gl |-> g, entry |-> Entry(g, c, g.boundVao \in DOMAIN g.vaos, TRUE)]
      [] c.op = "VertexAttribPointer" ->
           LET ok == g.boundVao \in DOMAIN g.vaos /\ g.bound["ARRAY"] \in DOMAIN g.buffers
           IN  [gl |-> IF ok
                       THEN [g EXCEPT !.vaos[g.boundVao].attribs =
                                          @ \cup {<<a[1], g.bound["ARRAY"]>>}]
                       ELSE g,
                entry |-> Entry(g, c, ok, TRUE)]
      [] c.op = "DispatchCompute" ->
           LET b == g.ssboBase
               ok == progLive /\ a[1] > 0 /\ a[2] > 0 /\ a[3] > 0
               runs == ok /\ g.programs[cp].kind = "compute" /\ b \in DOMAIN g.buffers
           IN  [gl |-> IF runs
                       THEN [g EXCEPT !.buffers[b] =
                                          [data |-> ParticleShader(g.buffers[b].data,
                                                        g.programs[cp].uniforms,
                                                        a[1] * a[2] * a[3] * LocalSizeX, rnd),
                                           shaderWrote |-> TRUE],
                                      !.pendingShaderWrites = TRUE]
                       ELSE g,
                entry |-> Entry(g, c, ok, TRUE)]
      [] c.op = "MemoryBarrier" ->
           [gl |-> [g EXCEPT !.pendingShaderWrites = FALSE],
            entry |-> Entry(g, c, TRUE, TRUE)]
      [] c.op = "DrawArrays" ->
           [gl |-> g,
            entry |-> Entry(g, c, progLive /\ g.boundVao \in DOMAIN g.vaos, TRUE)]
      [] c.op = "DeleteProgram" ->
           LET live == a[1] \in DOMAIN g.programs
           IN  [gl |-> IF live THEN [g EXCEPT !.programs = Without(@, a[1])] ELSE g,
                entry |-> Entry(g, c, live \/ a[1] = 0, live)]
      [] c.op = "DeleteBuffers" ->
           LET live == a[1] \in DOMAIN g.buffers
               unbind(b) == IF b = a[1] THEN 0 ELSE b
           IN  [gl |-> IF live
                       THEN [g EXCEPT !.buffers = Without(@, a[1]),
                                      !.ssboBase = unbind(@),
                                      !.bound = [t \in DOMAIN @ |-> unbind(@[t])]]
                       ELSE g,
                entry |-> Entry(g, c, TRUE, live)]
      [] c.op = "DeleteVertexArrays" ->
           LET live == a[1] \in DOMAIN g.vaos
           IN  [gl |-> IF live
                       THEN [g EXCEPT !.vaos = Without(@, a[1]),
                                      !.boundVao = IF @ = a[1] THEN 0 ELSE @]
                       ELSE g,
                entry |-> Entry(g, c, TRUE, live)]

\* The driver runs commands lo..hi of a method in order; log collects the
\* entries.  The range is run in two halves, the first one evaluated before
\* the second starts (the bound variable of a set is a value), which keeps
\* the evaluation shallow.
RECURSIVE ExecRange(_, _, _, _, _)
ExecRange(g, cmds, lo, hi, rnd) ==
    IF lo > hi THEN [gl |-> g, log |-> <<>>]
    ELSE IF lo = hi
    THEN LET s == GLStep(g, cmds[lo], rnd)
         IN  [gl |-> s.gl, log |-> <<s.entry>>]
    ELSE LET mid == (lo + hi) \div 2
         IN  CHOOSE r \in UNION { { [gl |-> second.gl, log |-> first.log \o second.log] :
                                      second \in {ExecRange(first.gl, cmds, mid + 1, hi, rnd)} } :
                                    first \in {ExecRange(g, cmds, lo, mid, rnd)} } : TRUE

Exec(g, cmds, rnd) == ExecRange(g, cmds, 1, Len(cmds), rnd)

\* ------------------------------------------------------------------ state
VARIABLES
    this,       \* the ParticleManager object: its data members
    alive,      \* constructed and not yet destroyed
    inited,     \* Init has assigned the members
    cleaned,    \* Cleanup ran since the last Init
    gl,         \* the GL context: programs, buffers, VAOs, bindings
    glLog,      \* the commands the last method call issued, as the driver took them
    lastCall,   \* the last method called on the object
    args,       \* the arguments of the last Init call
    handed,     \* the two program handles the shader builder hands to Init
    frames,     \* the number of Update calls so far
    probe       \* input and result of the work-group computation on its own

vars ==
    <<this, alive, inited, cleaned, gl, glLog, lastCall, args, handed, frames, probe>>

EmptyMap == [n \in {} |-> 0]

\* What an unassigned unsigned int member may hold: the constructor is empty,
\* so a handle read before Init is an indeterminate value.  0 names no
\* object; 1 is a name the driver has given out.
UninitHandles == {0, 1}

NoArgs ==
    [numParticles |-> 0, maxParticlesEmittedPerFrame |-> 0, center |-> Vec(0, 0),
     radius |-> 0, minVelocity |-> 0, maxVelocity |-> 0]

NoProbe == [numParticles |-> 0, groups |-> <<>>]

\* a linked program of the given kind with the given active uniforms
Program(kind, active) == [kind |-> kind, uniforms |-> NoUniforms, active |-> active]

\* The context as the window and shader set-up leave it: a render program and
\* a compute program linked, nothing bound, no buffer or VAO yet.
GLInit(active) ==
    [currentProgram |-> 0,
     programs |-> (1 :> Program("render", {})) @@ (2 :> Program("compute", active)),
     nextProgram |-> 3,
     buffers |-> EmptyMap, nextBuffer |-> 1,
     vaos |-> EmptyMap, nextVao |-> 1,
     bound |-> [t \in {"SSBO", "ARRAY"} |-> 0],
     ssboBase |-> 0, boundVao |-> 0,
     pendingShaderWrites |-> FALSE]

\* ParticleManager::ParticleManager: nothing is assigned.
ConstructedWith(handles) ==
    /\ this \in [programId : handles, computeProgramId : handles,
                 shaderBufferId : handles, vaoId : handles,
                 allParticles : {<<>>}, maxParticlesEmittedPerFrame : {0},
                 center : {Vec(0, 0)}, radiusSqr : {0},
                 velocityMin : {0}, velocityDelta : {0}]
    /\ alive = TRUE
    /\ inited = FALSE
    /\ cleaned = FALSE
    /\ gl \in {GLInit(active) : active \in ShaderUniforms}
    /\ glLog = <<>>
    /\ lastCall = "ParticleManager"
    /\ args = NoArgs
    /\ handed = [render |-> 1, compute |-> 2]
    /\ frames = 0

Init == ConstructedWith(UninitHandles) /\ probe = NoProbe

\* ---------------------------------------------------------------- methods
\* ParticleManager::Cleanup
CleanupCmds(t) ==
    << Cmd("DeleteProgram", "", <<t.programId>>),
       Cmd("DeleteProgram", "", <<t.computeProgramId>>),
       Cmd("DeleteBuffers", "", <<t.shaderBufferId>>),
       Cmd("DeleteVertexArrays", "", <<t.vaoId>>) >>

InitUniformCmds_QuotaIsParticleCount(t, a) ==
    << Cmd("UseProgram", "", <<t.computeProgramId>>),
       Cmd("Uniform", "uRadiusSqr", <<t.radiusSqr>>),
       Cmd("Uniform", "uMmaxParticlesEmittedPerFrame", <<a.numParticles>>),
       Cmd("Uniform", "uMaxParticleCount", <<a.numParticles>>),
       Cmd("Uniform", "uEmitterCenter", <<a.center.x, a.center.y>>),
       Cmd("UseProgram", "", <<0>>) >>

\* ParticleManager::Init, lines 106 to 138, on the object t whose members
\* Init has assigned; a holds Init's arguments.  The uniform locations are
\* the names they were looked up with.  The glGet queries and the printf
\* calls change nothing and are left out.
InitUniformCmds(t, a) ==
    << Cmd("UseProgram", "", <<t.computeProgramId>>),
       Cmd("Uniform", "uRadiusSqr", <<t.radiusSqr>>),
       Cmd("Uniform", "uMmaxParticlesEmittedPerFrame", <<a.maxParticlesEmittedPerFrame>>),
       Cmd("Uniform", "uMaxParticleCount", <<a.numParticles>>),
       Cmd("Uniform", "uEmitterCenter", <<a.center.x, a.center.y>>),
       Cmd("UseProgram", "", <<0>>) >>

InitBufferCmds_UploadsUnresetArray(t) ==
    << Cmd("GenBuffers", "", <<1>>),
       Cmd("BindBuffer", "SSBO", <<t.shaderBufferId>>),
       CmdData("BufferData", "SSBO", <<Len(t.allParticles)>>,
               [i \in 1..Len(t.allParticles) |-> DefaultParticle]),
       Cmd("BindBufferBase", "SSBO", <<0, t.shaderBufferId>>) >>

\* ParticleManager::Init, lines 142 to 146: the shader storage buffer is
\* generated (its name is what t.shaderBufferId holds) and filled from
\* _allParticles.
InitBufferCmds(t) ==
    << Cmd("GenBuffers", "", <<1>>),
       Cmd("BindBuffer", "SSBO", <<t.shaderBufferId>>),
       CmdData("BufferData", "SSBO", <<Len(t.allParticles)>>, t.allParticles),
       Cmd("BindBufferBase", "SSBO", <<0, t.shaderBufferId>>) >>

\* ParticleManager::Init, lines 152 to 191: the VAO and its three attributes
\* (index, number of items, byte offset).
InitVaoCmds(t) ==
    << Cmd("UseProgram", "", <<t.programId>>),
       Cmd("GenVertexArrays", "", <<1>>),
       Cmd("BindVertexArray", "", <<t.vaoId>>),
       Cmd("BindBuffer", "ARRAY", <<t.shaderBufferId>>),
       Cmd("EnableVertexAttribArray", "", <<0>>),
       Cmd("VertexAttribPointer", "", <<0, 4, 0>>),
       Cmd("EnableVertexAttribArray", "", <<1>>),
       Cmd("VertexAttribPointer", "", <<1, 4, 16>>),
       Cmd("EnableVertexAttribArray", "", <<2>>),
       Cmd("VertexAttribPointer", "", <<2, 1, 32>>),
       Cmd("BindVertexArray", "", <<0>>),
       Cmd("BindBuffer", "ARRAY", <<0>>),
       Cmd("UseProgram", "", <<0>>) >>

\* The GL calls of ParticleManager::Init, in order.
InitCmds(t, a) == InitUniformCmds(t, a) \o InitBufferCmds(t) \o InitVaoCmds(t)

UpdateCmds_NoBarrier(t, deltaTimeSec) ==
    << Cmd("UseProgram", "", <<t.computeProgramId>>),
       Cmd("Uniform", "uDeltaTimeSec", <<deltaTimeSec>>),
       Cmd("DispatchCompute", "", <<NumWorkGroupsX(Len(t.allParticles)), 1, 1>>),
       Cmd("UseProgram", "", <<0>>) >>

UpdateCmds_LeavesProgramBound(t, deltaTimeSec) ==
    << Cmd("UseProgram", "", <<t.computeProgramId>>),
       Cmd("Uniform", "uDeltaTimeSec", <<deltaTimeSec>>),
       Cmd("DispatchCompute", "", <<NumWorkGroupsX(Len(t.allParticles)), 1, 1>>),
       Cmd("MemoryBarrier", "", <<>>) >>

\* The GL calls of ParticleManager::Update
UpdateCmds(t, deltaTimeSec) ==
    << Cmd("UseProgram", "", <<t.computeProgramId>>),
       Cmd("Uniform", "uDeltaTimeSec", <<deltaTimeSec>>),
       Cmd("DispatchCompute", "", <<NumWorkGroupsX(Len(t.allParticles)), 1, 1>>),
       Cmd("MemoryBarrier", "", <<>>),
       Cmd("UseProgram", "", <<0>>) >>

\* The GL calls of ParticleManager::Render
RenderCmds(t) ==
    << Cmd("UseProgram", "", <<t.programId>>),
       Cmd("BindVertexArray", "", <<t.vaoId>>),
       Cmd("DrawArrays", "", <<0, Len(t.allParticles)>>),
       Cmd("UseProgram", "", <<0>>) >>

\* ----------------------------------------------------------------- inputs
\* Values RandomPosAndNeg() returns (RandomToast.h is not in src/): any int,
\* of either sign.
RandomPosAndNeg == {-303, 0, 104}

\* Values RandomOnRange0to1() returns: a float in [0, 1].
RandomOnRange0to1 == {0, Unit \div 2, Unit}

\* The six random values one ResetParticle call consumes.
AllDraws ==
    [px : RandomPosAndNeg, py : RandomPosAndNeg, pf : RandomOnRange0to1,
     vx : RandomPosAndNeg, vy : RandomPosAndNeg, vf : RandomOnRange0to1]

\* a particle on the rim of the spawn disc, leaving along the x axis at the
\* maximum velocity
RimDraw == [px |-> 104, py |-> 0, pf |-> Unit, vx |-> 104, vy |-> 0, vf |-> Unit]

\* a particle at the emitter center, leaving diagonally at the minimum velocity
CenterDraw == [px |-> -303, py |-> 104, pf |-> 0, vx |-> -303, vy |-> -303, vf |-> 0]

\* every axis value a multiple of 100
ZeroDraw == [px |-> 0, py |-> 200, pf |-> Unit, vx |-> 0, vy |-> -300, vf |-> Unit]

\* Init's arguments where whole frames are explored.
FrameArgs(maxCount) ==
    [numParticles : 0..maxCount, maxParticlesEmittedPerFrame : 0..MaxEmit,
     center : {Vec(100, -100)}, radius : {2 * SpawnRadius},
     minVelocity : {SpawnRadius}, maxVelocity : {3 * SpawnRadius}]

\* Init's arguments where one reset is explored: radii below, at and above the
\* hard-coded spawn radius, and ordered velocity ranges.
ResetArgs ==
    [numParticles : {1}, maxParticlesEmittedPerFrame : {1},
     center : {Vec(0, 0), Vec(100, -100)},
     radius : {SpawnRadius \div 2, SpawnRadius, SpawnRadius + Tol, -3 * SpawnRadius},
     minVelocity : {0, SpawnRadius}, maxVelocity : {SpawnRadius, 3 * SpawnRadius}]

\* the quarter turns the shader's random source picks from: keep or reverse
Turns == {0, 2}

\* ---------------------------------------------------------------- actions
\* ParticleManager::Init, called with arguments a from Args and with the
\* random values draws[i] consumed by the reset of particle i.  The caller
\* hands in live program handles; again says whether the caller calls Init
\* on an object that is initialised already.
InitCall(Args, Draws, again) ==
    /\ alive
    /\ again \/ ~inited
    /\ handed.render \in DOMAIN gl.programs
    /\ handed.compute \in DOMAIN gl.programs
    /\ gl.nextBuffer <= MaxBuffers
    /\ \E a \in Args :
         \E draws \in [1..a.numParticles -> Draws] :
           LET radiusSqr == a.radius * a.radius
               velocityMin == a.minVelocity
               velocityDelta == a.maxVelocity - a.minVelocity
               resized == Resize(this.allParticles, a.numParticles)
               t == [programId |-> handed.render,
                     computeProgramId |-> handed.compute,
                     shaderBufferId |-> gl.nextBuffer,
                     vaoId |-> gl.nextVao,
                     allParticles |->
                         [i \in 1..a.numParticles |->
                             ResetParticle(resized[i], a.center, velocityMin,
                                           velocityDelta, draws[i])],
                     maxParticlesEmittedPerFrame |-> a.maxParticlesEmittedPerFrame,
                     center |-> a.center,
                     radiusSqr |-> radiusSqr,
                     velocityMin |-> velocityMin,
                     velocityDelta |-> velocityDelta]
               r == Exec(gl, InitCmds(t, a), <<>>)
           IN  /\ this' = t
               /\ gl' = r.gl
               /\ glLog' = r.log
               /\ args' = a
    /\ inited' = TRUE
    /\ cleaned' = FALSE
    /\ lastCall' = "Init"
    /\ UNCHANGED <<alive, handed, frames, probe>>

\* The random values the shader can consume in one dispatch: invocation i
\* draws a turn only when it recycles particle i.
ShaderDraws ==
    LET data == IF gl.ssboBase \in DOMAIN gl.buffers THEN gl.buffers[gl.ssboBase].data
                ELSE <<>>
    IN  { f \in [1..Len(this.allParticles) -> Turns \cup {0}] :
            \A i \in DOMAIN f :
              f[i] # 0 => /\ i <= Len(data)
                          /\ OutOfBounds(data[i], this.center, this.radiusSqr) }

\* ParticleManager::Update(deltaTimeSec); rnd[i] is what the shader's random
\* source yields in invocation i.  The frame loop steps a manager that is
\* initialised and not cleaned up, for at most cap frames.
UpdateCall(DeltaTimes, cap) ==
    /\ alive /\ inited /\ ~cleaned
    /\ frames < cap
    /\ \E deltaTimeSec \in DeltaTimes :
         \E rnd \in ShaderDraws :
           LET r == Exec(gl, UpdateCmds(this, deltaTimeSec), rnd)
           IN  /\ gl' = r.gl
               /\ glLog' = r.log
    /\ frames' = frames + 1
    /\ lastCall' = "Update"
    /\ UNCHANGED <<this, alive, inited, cleaned, args, handed, probe>>

\* ParticleManager::Render
RenderStep ==
    /\ alive /\ inited /\ ~cleaned
    /\ LET r == Exec(gl, RenderCmds(this), <<>>)
       IN  /\ gl' = r.gl
           /\ glLog' = r.log
    /\ lastCall' = "Render"
    /\ UNCHANGED <<this, alive, inited, cleaned, args, handed, frames, probe>>

\* ParticleManager::Cleanup, called by the user
CleanupStep ==
    /\ alive
    /\ LET r == Exec(gl, CleanupCmds(this), <<>>)
       IN  /\ gl' = r.gl
           /\ glLog' = r.log
    /\ cleaned' = TRUE
    /\ lastCall' = "Cleanup"
    /\ UNCHANGED <<this, alive, inited, args, handed, frames, probe>>

\* ParticleManager::~ParticleManager: this->Cleanup()
DestroyStep ==
    /\ alive
    /\ LET r == Exec(gl, CleanupCmds(this), <<>>)
       IN  /\ gl' = r.gl
           /\ glLog' = r.log
    /\ alive' = FALSE
    /\ cleaned' = TRUE
    /\ lastCall' = "~ParticleManager"
    /\ UNCHANGED <<this, inited, args, handed, frames, probe>>

\* The shader builder (outside this class) links a new pair of programs once
\* the pair it handed out is gone.
LinkPrograms ==
    /\ alive
    /\ ~(handed.render \in DOMAIN gl.programs /\ handed.compute \in DOMAIN gl.programs)
    /\ gl.nextProgram + 1 <= MaxPrograms
    /\ \E active \in ShaderUniforms :
         gl' = [gl EXCEPT !.programs =
                              @ @@ (gl.nextProgram :> Program("render", {}))
                                @@ (gl.nextProgram + 1 :> Program("compute", active)),
                          !.nextProgram = @ + 2]
    /\ handed' = [render |-> gl.nextProgram, compute |-> gl.nextProgram + 1]
    /\ UNCHANGED <<this, alive, inited, cleaned, glLog, lastCall, args, frames, probe>>

\* --------------------------------------------------------- specifications
\* The life of one object: construction, Init (also repeated), frames,
\* Cleanup (also repeated) and destruction.
LifeInit == InitCall(FrameArgs(MaxLifeParticles), {RimDraw}, TRUE)

LifeUpdate == UpdateCall({Unit}, MaxLifeFrames)

Next ==
    \/ LifeInit
    \/ LifeUpdate
    \/ RenderStep
    \/ CleanupStep
    \/ DestroyStep
    \/ LinkPrograms

Spec == Init /\ [][Next]_vars

\* The frames of one initialised manager.
FrameInit == InitCall(FrameArgs(MaxParticles), {RimDraw, CenterDraw, ZeroDraw}, FALSE)

FrameUpdate == UpdateCall({0, Unit}, MaxFrames)

NextFrames ==
    \/ FrameInit
    \/ FrameUpdate
    \/ RenderStep

\* Before Init no handle is read in these frames: the members start at 0.
InitFrames == ConstructedWith({0}) /\ probe = NoProbe

SpecFrames == InitFrames /\ [][NextFrames]_vars

\* One Init of a one-particle manager, over every combination of the random
\* values its reset consumes.
ResetInit == InitCall(ResetArgs, AllDraws, FALSE)

InitReset == ConstructedWith({0}) /\ probe = NoProbe

SpecReset == InitReset /\ [][ResetInit]_vars

\* The work-group computation of Update on its own, over particle counts that
\* no array of the other specifications reaches.
ParticleCounts == 0..MaxCount \cup {65535, 65536, 16777215, 16777216, 1073741824}

InitWorkGroups ==
    /\ ConstructedWith({0})
    /\ probe \in [numParticles : ParticleCounts, groups : {<<>>}]

ComputeWorkGroups ==
    /\ probe.groups = <<>>
    /\ probe' = [probe EXCEPT !.groups = <<NumWorkGroupsX(probe.numParticles), 1, 1>>]
    /\ UNCHANGED <<this, alive, inited, cleaned, gl, glLog, lastCall, args, handed, frames>>

SpecWorkGroups == InitWorkGroups /\ [][ComputeWorkGroups]_vars

\* ------------------------------------------------------------- properties
Max(a, b) == IF a > b THEN a ELSE b

Square(a) == a * a

\* the entries of the last call's log with one of the given operations
Issued(ops) == { i \in DOMAIN glLog : glLog[i].op \in ops }

\* the records of the buffer the manager's handle names (none if it is gone)
BufferRecords(g) ==
    IF this.shaderBufferId \in DOMAIN g.buffers
    THEN g.buffers[this.shaderBufferId].data
    ELSE <<>>

C2_VelocityMagnitudeWithinMinMax ==
    (inited /\ lastCall = "Init") =>
        \A i \in DOMAIN this.allParticles :
            LET v == this.allParticles[i].velocity
            IN  /\ ~v.nan
                /\ Square(Max(args.minVelocity - Tol, 0)) <= Dot(v)
                /\ Dot(v) <= Square(args.maxVelocity + Tol)

\* C9: the dispatch has floor(N / 256) + 1 groups in X and 1 in Y and Z: it
\* is never empty, its invocations reach every particle index, and they
\* exceed the particle count by at most 256.
C9_DispatchCoversEveryParticle ==
    probe.groups # <<>> =>
        LET n == probe.numParticles
            x == probe.groups[1]
        IN  /\ x >= 1
            /\ LocalSizeX * (x - 1) <= n
            /\ n < LocalSizeX * x
            /\ LocalSizeX * x - n <= LocalSizeX
            /\ probe.groups[2] = 1
            /\ probe.groups[3] = 1

\* C9's case: a particle count that is a whole number of groups, where the
\* added group is what covers nothing.
C9_Witness ==
    /\ probe.groups # <<>>
    /\ probe.numParticles = 2 * LocalSizeX
    /\ probe.groups[1] = 3

\* C3: every Update issues exactly one compute dispatch and, after it,
\* exactly one memory barrier before it returns; so no draw call is issued
\* while a shader write is pending without a barrier, and none is pending
\* when a method has returned.
C3_DispatchBarrierDraw ==
    /\ lastCall = "Update" =>
           /\ Cardinality(Issued({"DispatchCompute"})) = 1
           /\ Cardinality(Issued({"MemoryBarrier"})) = 1
           /\ \A d \in Issued({"DispatchCompute"}) :
                \A b \in Issued({"MemoryBarrier"}) : d < b
    /\ \A i \in Issued({"DrawArrays"}) : glLog[i].coherent
    /\ ~gl.pendingShaderWrites

\* C3's case: a Render after at least one Update, its draw call issued.
C3_Witness ==
    /\ lastCall = "Render"
    /\ frames > 0
    /\ Issued({"DrawArrays"}) # {}

\* C5: every delete that Cleanup issues, called by the user or by the
\* destructor, targets a handle that Init assigned to this object and that
\* has not been deleted before.
C5_CleanupDeletesOwnLiveHandles ==
    lastCall \in {"Cleanup", "~ParticleManager"} =>
        \A i \in Issued({"DeleteProgram", "DeleteBuffers", "DeleteVertexArrays"}) :
            inited /\ glLog[i].live

\* C7: over every sequence of Init and Cleanup calls on one object, at most
\* one buffer and at most one VAO generated by Init are allocated, and the
\* member handles refer to them.
C7_SingleOwnedBufferAndVao ==
    /\ Cardinality(DOMAIN gl.buffers) <= 1
    /\ Cardinality(DOMAIN gl.vaos) <= 1
    /\ \A b \in DOMAIN gl.buffers : inited /\ b = this.shaderBufferId
    /\ \A v \in DOMAIN gl.vaos : inited /\ v = this.vaoId

\* C8: every uniform upload and the compute dispatch are issued, and taken
\* by the driver, while the compute program is current; the draw call while
\* the render program is current; and when Init, Update or Render has
\* returned the current program is 0.
C8_ProgramBinding ==
    /\ \A i \in Issued({"Uniform", "DispatchCompute"}) :
         glLog[i].valid /\ glLog[i].prog = this.computeProgramId
    /\ \A i \in Issued({"DrawArrays"}) :
         glLog[i].valid /\ glLog[i].prog = this.programId
    /\ lastCall \in {"Init", "Update", "Render"} => gl.currentProgram = 0

\* C8's case: an Update that uploaded its uniform and dispatched.
C8_Witness ==
    /\ lastCall = "Update"
    /\ Issued({"Uniform"}) # {}
    /\ Issued({"DispatchCompute"}) # {}
    /\ this.computeProgramId # 0

\* particle i of the buffer was sent out by the step: it is active after it
\* and was inactive, or recycled, before
SentOut(old, new, i) ==
    /\ new[i].isActive = 1
    /\ old[i].isActive = 0 \/ OutOfBounds(old[i], this.center, this.radiusSqr)

C6_BufferMirrorsArray ==
    inited => BufferRecords(gl) = this.allParticles

\* C6 amended: the GPU buffer always holds exactly numParticles records, as
\* many as _allParticles; record i equals element i from Init until the
\* first Update.
C6_BufferMirrorsArrayUntilUpdate ==
    inited =>
        /\ this.shaderBufferId \in DOMAIN gl.buffers
        /\ Len(BufferRecords(gl)) = Len(this.allParticles)
        /\ Len(this.allParticles) = args.numParticles
        /\ frames = 0 => BufferRecords(gl) = this.allParticles

\* C6's case: a manager with particles that was rendered and not yet
\* updated.
C6_Witness ==
    /\ inited
    /\ frames = 0
    /\ lastCall = "Render"
    /\ Len(this.allParticles) = MaxParticles
    /\ \E i \in DOMAIN this.allParticles : this.allParticles[i] # DefaultParticle

=============================================================================
